---- MODULE Spec2Model ----
(***************************************************************************)
(* LivePhotoSort (live_photo_sort.py): one run of main() as a state        *)
(* machine.  The main thread walks scan_folder over every source root,     *)
(* merges the per-source indices, and move_pairs relocates every matched   *)
(* pair with safe_move (copy, hash, compare, unlink).  The signal handler  *)
(* is a second process that may clear the run flag between any two steps.  *)
(*                                                                         *)
(* Strings are tuples of one-character strings, so that slicing, upper()   *)
(* and replace() are computed.  A file's content is a token; the content   *)
(* of a damaged or truncated copy is Garbage.                              *)
(***************************************************************************)
EXTENDS Integers, Sequences, FiniteSets, TLC

\* ------------------------------------------------------------------ bounds
\* The number of environment faults (a failed exiftool batch, a damaged copy,
\* an exception inside safe_move, a failed manifest write) one run may see.
MaxFaults == 2

\* ------------------------------------------------------- configuration
\* The source roots, in the order main() scans them.  "X" is a root that does
\* not exist (a disconnected volume).
SOURCE_DIRS == <<"A", "X", "B">>

IMAGE_EXTS == {".heic", ".jpg", ".jpeg", ".png"}
VIDEO_EXTS == {".mov"}
ALL_EXTS == IMAGE_EXTS \cup VIDEO_EXTS

\* Files per exiftool call.  The program's value is 500; the model scales it
\* to the size of the modelled trees so that a source needs several batches.
EXIFTOOL_BATCH_SIZE == 2

\* uuid.replace("-", "")[:8]
UUID_SHORT_LEN == 8

\* ------------------------------------------------------------ strings
\* The characters the modelled strings use, in code-point order.
Ascii == <<" ", ",", "-", "0", "1", "2", "3", "4", "5", "A", "B", "C", "D",
           "F", "P", "a", "b", "c", "d", "e", "f", "h", "i", "n", "o", "r">>

Ord(c) == CHOOSE i \in 1..Len(Ascii) : Ascii[i] = c

\* str.upper() on one character
UpperChar(c) ==
    CASE c = "a" -> "A" [] c = "b" -> "B" [] c = "c" -> "C" [] c = "d" -> "D"
      [] c = "f" -> "F" [] OTHER -> c

Upper(s) == [i \in 1..Len(s) |-> UpperChar(s[i])]

\* str.replace(c, "")
RECURSIVE Remove(_, _)
Remove(s, c) ==
    IF s = <<>> THEN <<>>
    ELSE IF Head(s) = c THEN Remove(Tail(s), c)
    ELSE <<Head(s)>> \o Remove(Tail(s), c)

\* s[:n]
Prefix(s, n) == SubSeq(s, 1, IF Len(s) < n THEN Len(s) ELSE n)

\* Python's str < str: by code point, a proper prefix first.
RECURSIVE StrLess(_, _)
StrLess(a, b) ==
    IF b = <<>> THEN FALSE
    ELSE IF a = <<>> THEN TRUE
    ELSE IF Head(a) = Head(b) THEN StrLess(Tail(a), Tail(b))
    ELSE Ord(Head(a)) < Ord(Head(b))

\* A sort that gives the strings in descending order.
RECURSIVE Sorted_reverse(_)
Sorted_reverse(S) ==
    IF S = {} THEN <<>>
    ELSE LET m == CHOOSE x \in S : \A y \in S \ {x} : StrLess(y, x)
         IN  <<m>> \o Sorted_reverse(S \ {m})

\* sorted(set of str)
RECURSIVE Sorted(_)
Sorted(S) ==
    IF S = {} THEN <<>>
    ELSE LET m == CHOOSE x \in S : \A y \in S \ {x} : StrLess(x, y)
         IN  <<m>> \o Sorted(S \ {m})

\* Path.suffix.lower()
Lower(suffix) ==
    CASE suffix = ".HEIC" -> ".heic"
      [] suffix = ".MOV" -> ".mov"
      [] suffix = ".JPG" -> ".jpg"
      [] OTHER -> suffix

\* ------------------------------------------------------------ the archive
\* ContentIdentifier values.  U1 and U2 differ but share their first eight
\* hex characters once upper-cased; U2 sorts before U1, U3 last.
U1 == <<"a", "b", "c", "d", "1", "2", "3", "4", "-", "0", "1">>
U2 == <<"A", "B", "C", "D", "-", "1", "2", "3", "4", "-", "0", "2">>
U3 == <<"f", "f", "f", "f", "0", "0", "0", "0", "-", "0", "3">>
NoUuid == <<>>

\* DateTimeOriginal as exiftool prints it: <<Y, M, D, h, m, s>>, or <<>> when
\* the tag is missing or does not parse.
Date1 == <<2024, 3, 1, 10, 15, 22>>
NoDate == <<>>

Model15 == <<"i", "P", "h", "o", "n", "e", " ", "1", "5", " ", "P", "r", "o">>
NoModel == <<>>

\* A source path: root / name + suffix.
Path(root, name, suffix) == [root |-> root, name |-> name, suffix |-> suffix]

\* rec.get("SourceFile", "") of a record without the tag
NoPath == Path("", "", "")

a1 == Path("A", "IMG_1", ".HEIC")
a2 == Path("A", "IMG_1", ".MOV")
a3 == Path("A", "IMG_2", ".jpg")
a4 == Path("A", "notes", ".txt")
b1 == Path("B", "IMG_1", ".heic")
b2 == Path("B", "IMG_1", ".mov")

\* folder_path.rglob("*"): the files under a root, in the order the walk
\* yields them; a root that does not exist has none.
Tree(root) ==
    CASE root = "A" -> <<a1, a2, a3, a4>>
      [] root = "B" -> <<b1, b2>>
      [] OTHER -> <<>>

RootExists(root) == root \in {"A", "B"}

SourceFiles == {a1, a2, a3, a4, b1, b2}
MediaFiles == {p \in SourceFiles : Lower(p.suffix) \in ALL_EXTS}

\* The bytes of a source file when the run starts; no two files are equal.
OrigContent(p) ==
    CASE p = a1 -> "a1" [] p = a2 -> "a2" [] p = a3 -> "a3" [] p = a4 -> "a4"
      [] p = b1 -> "b1" [] p = b2 -> "b2"

\* What a damaged or truncated copy holds, and what a file left in the
\* destination by someone else holds.
Garbage == "garbage"
Stale == "stale"

\* One exiftool record (the tags the program reads).
Rec(p, uuid, lp, date, model) ==
    [SourceFile |-> p, ContentIdentifier |-> uuid, LivePhotoVideoIndex |-> lp,
     DateTimeOriginal |-> date, Model |-> model]

\* The metadata each file of the archive may carry.
MetaChoices(p) ==
    CASE p = a1 -> {Rec(p, U1, lp, Date1, Model15) : lp \in BOOLEAN}
      [] p = a2 -> {Rec(p, u, FALSE, NoDate, NoModel) : u \in {U1, U3}}
      [] p = a3 -> {Rec(p, u, TRUE, NoDate, NoModel) : u \in {U1, U2, NoUuid}}
      [] p = b1 -> {Rec(p, u, TRUE, Date1, Model15) : u \in {U1, U2}}
      [] p = b2 -> {Rec(p, u, FALSE, NoDate, NoModel) : u \in {U1, U2}}
      [] OTHER -> {Rec(p, NoUuid, FALSE, NoDate, NoModel)}

\* ------------------------------------------------------------ file naming
\* rich_base_name: the date as <<Y, M, D, h, m, s>> (the sentinel when
\* strptime raises), the model without spaces and commas ("iPhone" when
\* empty), and the first eight characters of the dash-free uuid, upper-cased.
DateSentinel == <<0, 0, 0, 0, 0, 0>>
ModelFallback == <<"i", "P", "h", "o", "n", "e">>

rich_base_name(meta, uuid) ==
    LET dt_raw == meta.DateTimeOriginal
        date_str == IF Len(dt_raw) = 6 THEN dt_raw ELSE DateSentinel
        uuid_short == Upper(Prefix(Remove(uuid, "-"), UUID_SHORT_LEN))
        stripped == Remove(Remove(meta.Model, " "), ",")
        model == IF stripped = <<>> THEN ModelFallback ELSE stripped
    IN  [date |-> date_str, model |-> model, id |-> uuid_short]

\* dest_dir / f"{base}{ext}" (counter 0) or dest_dir / f"{base}_{counter:02d}{ext}"
\* safe_dest_path, line 291: what the counter adds to the file name, nothing
\* for the first candidate and f"_{counter:02d}" for the later ones.
RECURSIVE Decimal(_)
Decimal(n) ==
    LET digit == <<"0", "1", "2", "3", "4", "5", "6", "7", "8", "9">>
    IN  IF n < 10 THEN <<digit[n + 1]>> ELSE Decimal(n \div 10) \o <<digit[(n % 10) + 1]>>

CounterSuffix(counter) ==
    IF counter = 0 THEN <<>>
    ELSE <<"_">> \o (IF counter < 10 THEN <<"0">> ELSE <<>>) \o Decimal(counter)

DestPath(base, counter, ext) == [base |-> base, counter |-> counter, ext |-> ext]

\* The loop with a counter that goes up by two.
RECURSIVE NextFree_skip(_, _, _, _)
NextFree_skip(dir, base, ext, counter) ==
    IF DestPath(base, counter, ext) \in dir
    THEN NextFree_skip(dir, base, ext, counter + 2)
    ELSE DestPath(base, counter, ext)

\* safe_dest_path: the loop over counter, on the directory listing `dir`
\* (the set of paths that exist).
RECURSIVE NextFree(_, _, _, _)
NextFree(dir, base, ext, counter) ==
    IF DestPath(base, counter, ext) \in dir
    THEN NextFree(dir, base, ext, counter + 1)
    ELSE DestPath(base, counter, ext)

\* The candidate name, taken whether or not it exists.
safe_dest_path_nocheck(dir, base, ext) == DestPath(base, 0, ext)

safe_dest_path(dir, base, ext) == NextFree(dir, base, ext, 0)

\* ------------------------------------------------------------ integrity
\* A digest that forgets the bytes: every file hashes alike.
sha256_weak(content) == <<"sha256">>

\* sha256_file: the digest of the bytes read; distinct contents have
\* distinct digests.
sha256_file(content) == <<"sha256", content>>

\* ------------------------------------------------------------ indices
\* A classification that takes every image with an identifier, marker or not.
ClassifyRec_nomarker(idx, rec) ==
    LET src_file == rec.SourceFile
        ext == Lower(src_file.suffix)
        uuid == rec.ContentIdentifier
    IN  IF src_file = NoPath THEN idx
        ELSE IF uuid = NoUuid THEN idx
        ELSE IF ext \in IMAGE_EXTS
        THEN IF uuid \notin DOMAIN idx.images
             THEN [idx EXCEPT !.images = (uuid :> <<src_file, rec>>) @@ @]
             ELSE idx
        ELSE IF ext \in VIDEO_EXTS
        THEN IF uuid \notin DOMAIN idx.videos
             THEN [idx EXCEPT !.videos = (uuid :> <<src_file, rec>>) @@ @]
             ELSE idx
        ELSE idx

\* One record of a batch, classified into the (images, videos) pair.
ClassifyRec(idx, rec) ==
    LET src_file == rec.SourceFile
        ext == Lower(src_file.suffix)
        uuid == rec.ContentIdentifier
        lp_index == rec.LivePhotoVideoIndex
    IN  IF src_file = NoPath THEN idx
        ELSE IF uuid = NoUuid THEN idx
        ELSE IF ext \in IMAGE_EXTS /\ lp_index
        THEN IF uuid \notin DOMAIN idx.images
             THEN [idx EXCEPT !.images = (uuid :> <<src_file, rec>>) @@ @]
             ELSE idx
        ELSE IF ext \in VIDEO_EXTS
        THEN IF uuid \notin DOMAIN idx.videos
             THEN [idx EXCEPT !.videos = (uuid :> <<src_file, rec>>) @@ @]
             ELSE idx
        ELSE idx

\* for rec in records: ...
RECURSIVE Classify(_, _)
Classify(idx, recs) ==
    IF recs = <<>> THEN idx
    ELSE Classify(ClassifyRec(idx, Head(recs)), Tail(recs))

\* collect_candidate_files: nothing for a root that does not exist, else the
\* files under it (`existing` is the set of paths that are files) whose
\* lower-cased suffix is a media extension.
collect_candidate_files(folder, existing) ==
    IF ~RootExists(folder) THEN <<>>
    ELSE SelectSeq(Tree(folder),
                   LAMBDA p : p \in existing /\ Lower(p.suffix) \in ALL_EXTS)

\* A merge in which the source seen last wins.
Merge_lastwins(all, idx) ==
    [u \in DOMAIN all \cup DOMAIN idx |-> IF u \in DOMAIN idx THEN idx[u] ELSE all[u]]

\* main: for uuid, val in idx.items(): if uuid not in all: all[uuid] = val
Merge(all, idx) ==
    [u \in DOMAIN all \cup DOMAIN idx |-> IF u \in DOMAIN all THEN all[u] ELSE idx[u]]

\* move_pairs: the three identifier sets
Matched(imgs, vids) == DOMAIN imgs \cap DOMAIN vids
OrphanImgs_all(imgs, vids) == DOMAIN imgs
OrphanImgs(imgs, vids) == DOMAIN imgs \ Matched(imgs, vids)
OrphanVids_all(imgs, vids) == DOMAIN vids
OrphanVids(imgs, vids) == DOMAIN vids \ Matched(imgs, vids)

\* ------------------------------------------------------------------ state
VARIABLES
    meta,            \* what exiftool reports for each media file
    resumed,         \* whether this run follows a run that was halted
    src_fs,          \* the source trees: path -> content, for the files that exist
    dest_dir,        \* whether the destination directory exists
    dest_fs,         \* the destination directory: path -> content
    manifest_file,   \* live_photo_manifest.json: <<>>, or <<the document>>
    pid_file,        \* whether logs/live_photo_sort.pid exists
    dry_run,         \* args.dry_run
    running,         \* _running
    pc,              \* where the main thread is
    faults,          \* environment faults so far
    src_i,           \* main: index of the source being scanned
    candidates, batch_start, records, images, videos,       \* scan_folder
    all_images, all_videos,                                 \* main
    matched_uuids, orphan_img_uuids, orphan_vid_uuids,      \* move_pairs
    order, i, dest_img, dest_vid, img_ok, vid_ok, manifest, \* move_pairs
    sm_role, src, dst, src_hash, dst_hash                   \* safe_move

fsVars == <<src_fs, dest_dir, dest_fs, manifest_file>>
scanVars == <<candidates, batch_start, records, images, videos>>
mainVars == <<src_i, all_images, all_videos>>
matchVars == <<matched_uuids, orphan_img_uuids, orphan_vid_uuids, order>>
pairVars == <<i, dest_img, dest_vid, img_ok, vid_ok, manifest>>
smVars == <<sm_role, src, dst, src_hash, dst_hash>>
vars == <<meta, resumed, fsVars, pid_file, dry_run, running, pc, faults, scanVars,
          mainVars, matchVars, pairVars, smVars>>

\* A value for a local that is not in scope.
None == <<>>

\* The base name the pair of `uuid` gets, and its two source paths.
ImgPath(uuid) == all_images[uuid][1]
ImgMeta(uuid) == all_images[uuid][2]
VidPath(uuid) == all_videos[uuid][1]
BaseOf(uuid) == rich_base_name(ImgMeta(uuid), uuid)

\* What the destination may hold before the run: it does not exist, it is
\* empty, or it holds an image an earlier run left under the base name of U1.
StaleImg == DestPath(rich_base_name(Rec(a1, U1, TRUE, Date1, Model15), U1), 0, ".heic")

Init ==
    /\ meta \in {m \in [MediaFiles -> UNION {MetaChoices(p) : p \in MediaFiles}] :
                    \A p \in MediaFiles : m[p] \in MetaChoices(p)}
    /\ resumed = FALSE
    /\ src_fs = [p \in SourceFiles |-> OrigContent(p)]
    /\ \E d \in {"none", "empty", "stale"} :
          /\ dest_dir = (d # "none")
          /\ dest_fs = IF d = "stale" THEN (StaleImg :> Stale) ELSE <<>>
    /\ manifest_file = <<>>
    /\ pid_file = FALSE
    /\ dry_run \in BOOLEAN
    /\ running = TRUE
    /\ pc = "main"
    /\ faults = 0
    /\ src_i = 1
    /\ candidates = <<>> /\ batch_start = 0 /\ records = <<>>
    /\ images = <<>> /\ videos = <<>>
    /\ all_images = <<>> /\ all_videos = <<>>
    /\ matched_uuids = {} /\ orphan_img_uuids = {} /\ orphan_vid_uuids = {}
    /\ order = <<>> /\ i = 0
    /\ dest_img = None /\ dest_vid = None /\ img_ok = FALSE /\ vid_ok = FALSE
    /\ manifest = None
    /\ sm_role = "" /\ src = None /\ dst = None /\ src_hash = None /\ dst_hash = None

\* ------------------------------------------------------------- scanning
\* main, lines 458-472: the PID file is written, the global indices are empty.
main_start ==
    /\ pc = "main"
    /\ pid_file' = TRUE
    /\ pc' = "sources"
    /\ UNCHANGED <<meta, resumed, fsVars, dry_run, running, faults, scanVars, mainVars,
                   matchVars, pairVars, smVars>>

\* main, line 475-476, and scan_folder up to its batch loop: the next source
\* is walked; with no candidates scan_folder returns two empty indices.
scan_folder ==
    /\ pc = "sources"
    /\ src_i <= Len(SOURCE_DIRS)
    /\ images' = <<>>
    /\ videos' = <<>>
    /\ candidates' = collect_candidate_files(SOURCE_DIRS[src_i], DOMAIN src_fs)
    /\ batch_start' = 0
    /\ records' = <<>>
    /\ pc' = IF candidates' = <<>> THEN "merge" ELSE "batch"
    /\ UNCHANGED <<meta, resumed, fsVars, pid_file, dry_run, running, faults, mainVars,
                   matchVars, pairVars, smVars>>

\* candidates[batch_start : batch_start + EXIFTOOL_BATCH_SIZE]
Batch ==
    SubSeq(candidates, batch_start + 1,
           IF batch_start + EXIFTOOL_BATCH_SIZE < Len(candidates)
           THEN batch_start + EXIFTOOL_BATCH_SIZE ELSE Len(candidates))

\* A batch loop that gives the run up when exiftool fails.
scan_batch_abort ==
    /\ pc = "batch"
    /\ IF batch_start >= Len(candidates) \/ ~running
       THEN /\ pc' = "merge"
            /\ UNCHANGED <<records, faults>>
       ELSE \/ /\ records' = [k \in 1..Len(Batch) |-> meta[Batch[k]]]
               /\ pc' = "classify"
               /\ UNCHANGED faults
            \/ /\ faults < MaxFaults
               /\ faults' = faults + 1
               /\ records' = <<>>
               /\ pc' = "exit"
    /\ UNCHANGED <<meta, resumed, fsVars, pid_file, dry_run, running, candidates,
                   batch_start, images, videos, mainVars, matchVars, pairVars,
                   smVars>>

\* scan_folder, lines 215-226: the head of the batch loop.  The loop ends when
\* the candidates are used up or the run flag is down; otherwise exiftool
\* reads the batch and returns one record per file, or nothing when it fails
\* (bad JSON, timeout, any exception, empty output).
scan_batch ==
    /\ pc = "batch"
    /\ IF batch_start >= Len(candidates) \/ ~running
       THEN /\ pc' = "merge"
            /\ UNCHANGED <<records, faults>>
       ELSE /\ pc' = "classify"
            /\ \/ /\ records' = [k \in 1..Len(Batch) |-> meta[Batch[k]]]
                  /\ UNCHANGED faults
               \/ /\ faults < MaxFaults
                  /\ faults' = faults + 1
                  /\ records' = <<>>
    /\ UNCHANGED <<meta, resumed, fsVars, pid_file, dry_run, running, candidates,
                   batch_start, images, videos, mainVars, matchVars, pairVars,
                   smVars>>

\* scan_folder, lines 228-248: every record of the batch is classified.
scan_classify ==
    /\ pc = "classify"
    /\ LET idx == Classify([images |-> images, videos |-> videos], records)
       IN  /\ images' = idx.images
           /\ videos' = idx.videos
    /\ records' = <<>>
    /\ batch_start' = batch_start + EXIFTOOL_BATCH_SIZE
    /\ pc' = "batch"
    /\ UNCHANGED <<meta, resumed, fsVars, pid_file, dry_run, running, faults, candidates,
                   mainVars, matchVars, pairVars, smVars>>

\* main, lines 477-488: scan_folder has returned; its indices are merged into
\* the global ones, first seen wins.
main_merge ==
    /\ pc = "merge"
    /\ all_images' = Merge(all_images, images)
    /\ all_videos' = Merge(all_videos, videos)
    /\ src_i' = src_i + 1
    /\ pc' = "sources"
    /\ UNCHANGED <<meta, resumed, fsVars, pid_file, dry_run, running, faults, scanVars,
                   matchVars, pairVars, smVars>>

\* ------------------------------------------------------------ move_pairs
EmptyManifest == [pairs |-> <<>>, orphan_images |-> <<>>, orphan_videos |-> <<>>]

\* move_pairs, lines 340-374: the destination directory is made, the manifest
\* is started and the three identifier sets are computed; a dry run logs
\* them and returns the empty manifest.
move_pairs ==
    /\ pc = "sources"
    /\ src_i > Len(SOURCE_DIRS)
    /\ dest_dir' = TRUE
    /\ manifest' = EmptyManifest
    /\ matched_uuids' = Matched(all_images, all_videos)
    /\ orphan_img_uuids' = OrphanImgs(all_images, all_videos)
    /\ orphan_vid_uuids' = OrphanVids(all_images, all_videos)
    /\ order' = Sorted(matched_uuids')
    /\ i' = 0
    /\ pc' = IF dry_run THEN "manifest" ELSE "pair"
    /\ UNCHANGED <<meta, resumed, src_fs, dest_fs, manifest_file, pid_file, dry_run,
                   running, faults, scanVars, mainVars, dest_img, dest_vid,
                   img_ok, vid_ok, smVars>>

\* safe_move is entered for `role` with the given source and destination.
Call(role, s, d) ==
    /\ sm_role' = role
    /\ src' = s
    /\ dst' = d
    /\ src_hash' = None
    /\ dst_hash' = None
    /\ pc' = "copy"

\* A loop head that does not look at the run flag.
move_pairs_next_noflag ==
    /\ pc = "pair"
    /\ IF i >= Len(order)
       THEN /\ pc' = "orphans"
            /\ UNCHANGED <<dest_img, dest_vid, smVars>>
       ELSE LET uuid == order[i + 1]
                base == BaseOf(uuid)
                img_ext == Lower(ImgPath(uuid).suffix)
            IN  /\ dest_img' = safe_dest_path(DOMAIN dest_fs, base, img_ext)
                /\ dest_vid' = safe_dest_path(DOMAIN dest_fs, base, ".mov")
                /\ Call("img", ImgPath(uuid), dest_img')
    /\ UNCHANGED <<meta, resumed, fsVars, pid_file, dry_run, running, faults, scanVars,
                   mainVars, matchVars, i, img_ok, vid_ok, manifest>>

\* move_pairs, lines 379-397: the head of the pair loop.  The loop ends when
\* the pairs are used up or the run flag is down; otherwise both destination
\* names are taken and the image is handed to safe_move.
move_pairs_next ==
    /\ pc = "pair"
    /\ IF i >= Len(order) \/ ~running
       THEN /\ pc' = "orphans"
            /\ UNCHANGED <<dest_img, dest_vid, smVars>>
       ELSE LET uuid == order[i + 1]
                base == BaseOf(uuid)
                img_ext == Lower(ImgPath(uuid).suffix)
            IN  /\ dest_img' = safe_dest_path(DOMAIN dest_fs, base, img_ext)
                /\ dest_vid' = safe_dest_path(DOMAIN dest_fs, base, ".mov")
                /\ Call("img", ImgPath(uuid), dest_img')
    /\ UNCHANGED <<meta, resumed, fsVars, pid_file, dry_run, running, faults, scanVars,
                   mainVars, matchVars, i, img_ok, vid_ok, manifest>>

\* A return that looks at the run flag: with the flag down the video of the
\* pair is never handed to safe_move and the pair loop is left.
Return_abandon(ok) ==
    IF sm_role = "img" /\ running
    THEN /\ img_ok' = ok
         /\ Call("vid", VidPath(order[i + 1]), dest_vid)
         /\ UNCHANGED vid_ok
    ELSE /\ IF sm_role = "img"
            THEN img_ok' = ok /\ UNCHANGED vid_ok
            ELSE vid_ok' = ok /\ UNCHANGED img_ok
         /\ pc' = IF sm_role = "img" THEN "orphans" ELSE "entry"
         /\ sm_role' = ""
         /\ src' = None
         /\ dst' = None
         /\ src_hash' = None
         /\ dst_hash' = None

\* safe_move returns `ok`: the image's result is kept and the video is handed
\* to safe_move (line 398); the video's result is kept and the entry is next.
Return(ok) ==
    IF sm_role = "img"
    THEN /\ img_ok' = ok
         /\ Call("vid", VidPath(order[i + 1]), dest_vid)
         /\ UNCHANGED vid_ok
    ELSE /\ vid_ok' = ok
         /\ pc' = "entry"
         /\ sm_role' = ""
         /\ src' = None
         /\ dst' = None
         /\ src_hash' = None
         /\ dst_hash' = None
         /\ UNCHANGED img_ok

\* A copy that the stop signal cuts short: with the run flag down copy2
\* leaves a truncated file and safe_move fails.
safe_move_copy_interruptible ==
    /\ pc = "copy"
    /\ src \in DOMAIN src_fs
    /\ IF running
       THEN /\ dest_fs' = (dst :> src_fs[src]) @@ dest_fs
            /\ pc' = "hash"
            /\ UNCHANGED <<faults, img_ok, vid_ok, smVars>>
       ELSE /\ dest_fs' = (dst :> Garbage) @@ dest_fs
            /\ UNCHANGED faults
            /\ Return(FALSE)
    /\ UNCHANGED <<meta, resumed, src_fs, dest_dir, manifest_file, pid_file, dry_run,
                   running, scanVars, mainVars, matchVars, i, dest_img,
                   dest_vid, manifest>>

\* safe_move, line 314: shutil.copy2.  The copy is written whole, or written
\* damaged, or copy2 raises, before it made the file or with a truncated file
\* left behind; a source that is gone makes it raise.
safe_move_copy ==
    /\ pc = "copy"
    /\ \/ /\ src \in DOMAIN src_fs
          /\ dest_fs' = (dst :> src_fs[src]) @@ dest_fs
          /\ pc' = "hash"
          /\ UNCHANGED <<faults, img_ok, vid_ok, smVars>>
       \/ /\ src \in DOMAIN src_fs
          /\ faults < MaxFaults
          /\ faults' = faults + 1
          /\ dest_fs' = (dst :> Garbage) @@ dest_fs
          /\ pc' = "hash"
          /\ UNCHANGED <<img_ok, vid_ok, smVars>>
       \/ /\ src \in DOMAIN src_fs
          /\ faults < MaxFaults
          /\ faults' = faults + 1
          /\ dest_fs' = (dst :> Garbage) @@ dest_fs
          /\ Return(FALSE)
       \/ /\ src \in DOMAIN src_fs => faults < MaxFaults
          /\ faults' = IF src \in DOMAIN src_fs THEN faults + 1 ELSE faults
          /\ UNCHANGED dest_fs
          /\ Return(FALSE)
    /\ UNCHANGED <<meta, resumed, src_fs, dest_dir, manifest_file, pid_file, dry_run,
                   running, scanVars, mainVars, matchVars, i, dest_img,
                   dest_vid, manifest>>

\* safe_move, lines 315-316: both digests are computed, or a read raises.
safe_move_hash ==
    /\ pc = "hash"
    /\ \/ /\ src_hash' = sha256_file(src_fs[src])
          /\ dst_hash' = sha256_file(dest_fs[dst])
          /\ pc' = "compare"
          /\ UNCHANGED <<faults, img_ok, vid_ok, sm_role, src, dst>>
       \/ /\ faults < MaxFaults
          /\ faults' = faults + 1
          /\ Return(FALSE)
    /\ UNCHANGED <<meta, resumed, fsVars, pid_file, dry_run, running, scanVars,
                   mainVars, matchVars, i, dest_img, dest_vid, manifest>>

\* A compare step that unlinks the source whatever the digests are.
safe_move_compare_nocheck ==
    /\ pc = "compare"
    /\ src_fs' = [p \in DOMAIN src_fs \ {src} |-> src_fs[p]]
    /\ Return(TRUE)
    /\ UNCHANGED <<dest_fs, faults>>
    /\ UNCHANGED <<meta, resumed, dest_dir, manifest_file, pid_file, dry_run, running,
                   scanVars, mainVars, matchVars, i, dest_img, dest_vid,
                   manifest>>

\* safe_move, lines 317-327: equal digests, the source is unlinked and the
\* move succeeded; different digests, the copy is unlinked and the move
\* failed; an unlink that raises leaves its file and the move failed.
safe_move_compare ==
    /\ pc = "compare"
    /\ IF src_hash = dst_hash
       THEN \/ /\ src_fs' = [p \in DOMAIN src_fs \ {src} |-> src_fs[p]]
               /\ Return(TRUE)
               /\ UNCHANGED <<dest_fs, faults>>
            \/ /\ faults < MaxFaults
               /\ faults' = faults + 1
               /\ Return(FALSE)
               /\ UNCHANGED <<src_fs, dest_fs>>
       ELSE \/ /\ dest_fs' = [p \in DOMAIN dest_fs \ {dst} |-> dest_fs[p]]
               /\ Return(FALSE)
               /\ UNCHANGED <<src_fs, faults>>
            \/ /\ faults < MaxFaults
               /\ faults' = faults + 1
               /\ Return(FALSE)
               /\ UNCHANGED <<src_fs, dest_fs>>
    /\ UNCHANGED <<meta, resumed, dest_dir, manifest_file, pid_file, dry_run, running,
                   scanVars, mainVars, matchVars, i, dest_img, dest_vid,
                   manifest>>

\* move_pairs, lines 400-406: the pair's manifest entry.
Entry(uuid) ==
    [uuid |-> uuid,
     base_name |-> BaseOf(uuid),
     image |-> [source |-> ImgPath(uuid), dest |-> dest_img, success |-> img_ok],
     video |-> [source |-> VidPath(uuid), dest |-> dest_vid, success |-> vid_ok]]

\* An entry step that leaves the pair loop after a pair that failed.
move_pairs_entry_break ==
    /\ pc = "entry"
    /\ manifest' = [manifest EXCEPT !.pairs = Append(@, Entry(order[i + 1]))]
    /\ i' = i + 1
    /\ dest_img' = None
    /\ dest_vid' = None
    /\ img_ok' = FALSE
    /\ vid_ok' = FALSE
    /\ pc' = IF img_ok /\ vid_ok THEN "pair" ELSE "orphans"
    /\ UNCHANGED <<meta, resumed, fsVars, pid_file, dry_run, running, faults, scanVars,
                   mainVars, matchVars, smVars>>

move_pairs_entry ==
    /\ pc = "entry"
    /\ manifest' = [manifest EXCEPT !.pairs = Append(@, Entry(order[i + 1]))]
    /\ i' = i + 1
    /\ dest_img' = None
    /\ dest_vid' = None
    /\ img_ok' = FALSE
    /\ vid_ok' = FALSE
    /\ pc' = "pair"
    /\ UNCHANGED <<meta, resumed, fsVars, pid_file, dry_run, running, faults, scanVars,
                   mainVars, matchVars, smVars>>

\* move_pairs, lines 419-433: the orphans, sorted, and the manifest is returned.
OrphanEntries(idx, uuids) ==
    LET s == Sorted(uuids)
    IN  [k \in 1..Len(s) |-> [uuid |-> s[k], path |-> idx[s[k]][1]]]

move_pairs_orphans ==
    /\ pc = "orphans"
    /\ manifest' = [manifest EXCEPT
                      !.orphan_images = OrphanEntries(all_images, orphan_img_uuids),
                      !.orphan_videos = OrphanEntries(all_videos, orphan_vid_uuids)]
    /\ pc' = "manifest"
    /\ UNCHANGED <<meta, resumed, fsVars, pid_file, dry_run, running, faults, scanVars,
                   mainVars, matchVars, i, dest_img, dest_vid, img_ok, vid_ok,
                   smVars>>

\* main, lines 495-503: a run that is not dry writes the manifest; a write
\* that raises is logged.
main_manifest ==
    /\ pc = "manifest"
    /\ IF dry_run
       THEN UNCHANGED <<manifest_file, faults>>
       ELSE \/ /\ manifest_file' = <<manifest>>
               /\ UNCHANGED faults
            \/ /\ faults < MaxFaults
               /\ faults' = faults + 1
               /\ UNCHANGED manifest_file
    /\ pc' = "exit"
    /\ UNCHANGED <<meta, resumed, src_fs, dest_dir, dest_fs, pid_file, dry_run, running,
                   scanVars, mainVars, matchVars, pairVars, smVars>>

\* An exit that leaves the PID file behind.
main_exit_keep ==
    /\ pc = "exit"
    /\ pid_file' = pid_file
    /\ pc' = "done"
    /\ UNCHANGED <<meta, resumed, fsVars, dry_run, running, faults, scanVars, mainVars,
                   matchVars, pairVars, smVars>>

\* main, line 505: the PID file is removed.
main_exit ==
    /\ pc = "exit"
    /\ pid_file' = FALSE
    /\ pc' = "done"
    /\ UNCHANGED <<meta, resumed, fsVars, dry_run, running, faults, scanVars, mainVars,
                   matchVars, pairVars, smVars>>

\* _handle_signal: SIGTERM or SIGINT, at any moment of the run.
handle_signal ==
    /\ pc # "done"
    /\ running' = FALSE
    /\ UNCHANGED <<meta, resumed, fsVars, pid_file, dry_run, pc, faults, scanVars,
                   mainVars, matchVars, pairVars, smVars>>

Next ==
    \/ main_start
    \/ scan_folder
    \/ scan_batch
    \/ scan_classify
    \/ main_merge
    \/ move_pairs
    \/ move_pairs_next
    \/ safe_move_copy
    \/ safe_move_hash
    \/ safe_move_compare
    \/ move_pairs_entry
    \/ move_pairs_orphans
    \/ main_manifest
    \/ main_exit
    \/ handle_signal

Spec == Init /\ [][Next]_vars

\* ------------------------------------------------------------ fairness
\* The steps of the main thread.  The interpreter keeps running it: a step
\* that can be taken is taken at last (no step waits for anything but the
\* bounded calls it makes), while a signal may or may not come.
main_thread ==
    \/ main_start
    \/ scan_folder
    \/ scan_batch
    \/ scan_classify
    \/ main_merge
    \/ move_pairs
    \/ move_pairs_next
    \/ safe_move_copy
    \/ safe_move_hash
    \/ safe_move_compare
    \/ move_pairs_entry
    \/ move_pairs_orphans
    \/ main_manifest
    \/ main_exit

\* Whether the run ends does not depend on what the files of the second
\* source carry, so the fair runs start from the archives where the second
\* source holds one pair of its own and the lone image has no identifier.
InitFair ==
    /\ Init
    /\ meta[a3] = Rec(a3, NoUuid, TRUE, NoDate, NoModel)
    /\ meta[b1] = Rec(b1, U2, TRUE, Date1, Model15)
    /\ meta[b2] = Rec(b2, U2, FALSE, NoDate, NoModel)

FairSpec == InitFair /\ [][Next]_vars /\ WF_vars(main_thread)

\* ------------------------------------------------------------ a second run
\* The program is started again after a run that the stop signal halted
\* (usage, lines 19-26): a new process, with _running up (line 120) and
\* nothing in memory, over the files the halted run left.  Only a halted run
\* that saw no fault is followed up: the second run is there to be compared
\* with one run that was neither halted nor hit by a fault.
restart ==
    /\ pc = "done"
    /\ ~resumed
    /\ ~running
    /\ ~dry_run
    /\ faults = 0
    /\ resumed' = TRUE
    /\ running' = TRUE
    /\ pc' = "main"
    /\ src_i' = 1
    /\ candidates' = <<>> /\ batch_start' = 0 /\ records' = <<>>
    /\ images' = <<>> /\ videos' = <<>>
    /\ all_images' = <<>> /\ all_videos' = <<>>
    /\ matched_uuids' = {} /\ orphan_img_uuids' = {} /\ orphan_vid_uuids' = {}
    /\ order' = <<>> /\ i' = 0
    /\ dest_img' = None /\ dest_vid' = None /\ img_ok' = FALSE /\ vid_ok' = FALSE
    /\ manifest' = None
    /\ UNCHANGED <<meta, fsVars, pid_file, dry_run, faults, smVars>>

InitResume == Init /\ ~dry_run

NextResume == Next \/ restart

SpecResume == InitResume /\ [][NextResume]_vars

\* ------------------------------------------------------------ properties
MoveSteps == {"copy", "hash", "compare"}
PairSteps == MoveSteps \cup {"entry"}
AfterPairs == {"orphans", "manifest", "exit", "done"}

\* The pair being relocated.
CurUuid == order[i + 1]

\* A file of the destination holds the original bytes of source file p.
CopiedIntact(p) == \E d \in DOMAIN dest_fs : dest_fs[d] = OrigContent(p)

\* C1: a source file leaves the source tree only in the compare step of
\* safe_move, it is the file safe_move was given, and both digests, of the
\* source and of the copy safe_move has just written to its destination,
\* were computed and are equal.
C1_DeleteOnlyAfterHashMatch ==
    [][\A p \in DOMAIN src_fs :
          p \notin DOMAIN src_fs' =>
             /\ pc = "compare"
             /\ p = src
             /\ dst = (IF sm_role = "img" THEN dest_img ELSE dest_vid)
             /\ dst \in DOMAIN dest_fs
             /\ src_hash = sha256_file(src_fs[p])
             /\ dst_hash = sha256_file(dest_fs[dst])
             /\ src_hash = dst_hash]_vars

\* C1 witness: a source file has been deleted, in a run that saw a fault and
\* the stop signal.
C1_Witness ==
    /\ \E p \in SourceFiles : p \notin DOMAIN src_fs
    /\ faults > 0
    /\ ~running

\* C2: at every moment of a run every source file is still in place with its
\* original bytes, or the destination holds a file with those bytes.
C2_NoDataLoss ==
    \A p \in SourceFiles :
        \/ p \in DOMAIN src_fs /\ src_fs[p] = OrigContent(p)
        \/ CopiedIntact(p)

\* C2 witness: a source file is gone while a damaged copy of another file
\* lies in the destination and the stop signal has arrived mid-move.
C2_Witness ==
    /\ \E p \in SourceFiles : p \notin DOMAIN src_fs
    /\ \E d \in DOMAIN dest_fs : dest_fs[d] = Garbage
    /\ ~running
    /\ pc \in MoveSteps

\* C3 (as claimed): the image and the video of a pair get the same name once
\* the extension is removed, for the pair in flight and for every manifest
\* entry.
SameStem(di, dv) == di.base = dv.base /\ di.counter = dv.counter

C3_SameBaseName ==
    /\ pc \in PairSteps => SameStem(dest_img, dest_vid)
    /\ pc \in PairSteps \cup {"pair"} \cup AfterPairs /\ ~dry_run =>
          \A k \in 1..Len(manifest.pairs) :
              SameStem(manifest.pairs[k].image.dest, manifest.pairs[k].video.dest)

\* The destination paths handed out so far in this run, per role, in order:
\* those of the manifest entries and that of the pair in flight.
Handed(role) ==
    IF manifest = None THEN <<>>
    ELSE [k \in 1..Len(manifest.pairs) |-> manifest.pairs[k][role]]
         \o (IF pc \in PairSteps
             THEN <<[source |-> IF role = "image" THEN ImgPath(CurUuid) ELSE VidPath(CurUuid),
                     dest |-> IF role = "image" THEN dest_img ELSE dest_vid,
                     success |-> FALSE]>>
             ELSE <<>>)

\* C4 (as claimed): no two source files of one role receive the same
\* destination path in one run.
C4_Injective ==
    \A role \in {"image", "video"} :
        \A j, k \in 1..Len(Handed(role)) :
            j # k => Handed(role)[j].dest # Handed(role)[k].dest

\* C4 (amended): a destination path is handed out a second time to a file of
\* the same role only if the earlier relocation to it failed; no two
\* relocations that succeeded share a destination path.
C4_InjectiveOnSuccess ==
    \A role \in {"image", "video"} :
        \A j, k \in 1..Len(Handed(role)) :
            j < k /\ Handed(role)[j].dest = Handed(role)[k].dest
                => ~Handed(role)[j].success

\* C4 witness: the second pair of a run has been named after a first pair
\* with the same base name whose image was relocated with success.
C4_Witness ==
    /\ pc \in PairSteps
    /\ Len(manifest.pairs) = 1
    /\ manifest.pairs[1].base_name = BaseOf(CurUuid)
    /\ manifest.pairs[1].image.success
    /\ manifest.pairs[1].image.dest.ext = dest_img.ext

\* C5 (as claimed): no step of a dry run changes the source trees, the
\* destination directory (its existence included) or the manifest file.
C5_DryRunNoMutation == [][dry_run => UNCHANGED fsVars]_vars

\* C6: no step leaves a unit of work half done, whatever the run flag is.
\* From inside a pair the only way out is the step that appends the pair's
\* manifest entry; the image's safe_move is followed by the video's; and the
\* step after a batch was read classifies every record of it.
Classified(rec, imgs, vids) ==
    LET ext == Lower(rec.SourceFile.suffix)
        uuid == rec.ContentIdentifier
    IN  /\ uuid # NoUuid /\ ext \in IMAGE_EXTS /\ rec.LivePhotoVideoIndex
            => uuid \in DOMAIN imgs
        /\ uuid # NoUuid /\ ext \in VIDEO_EXTS => uuid \in DOMAIN vids

C6_NoHalfFinishedUnit ==
    [][/\ pc \in PairSteps /\ pc' \notin PairSteps =>
            /\ pc = "entry"
            /\ pc' = "pair"
            /\ i' = i + 1
            /\ Len(manifest'.pairs) = Len(manifest.pairs) + 1
            /\ manifest'.pairs[i'].uuid = CurUuid
       /\ pc \in MoveSteps /\ sm_role = "img" /\ (pc' \notin MoveSteps \/ sm_role' # "img") =>
            pc' = "copy" /\ sm_role' = "vid" /\ src' = VidPath(CurUuid)
       /\ pc \in MoveSteps /\ sm_role = "vid" /\ pc' \notin MoveSteps =>
            pc' = "entry"
       /\ pc = "classify" /\ pc' # "classify" =>
            /\ pc' = "batch"
            /\ \A k \in 1..Len(records) : Classified(records[k], images', videos')]_vars

\* C6 witness: both halves of a pair have reached their outcome with the run
\* flag down, the image relocated, and the entry is about to be appended.
C6_Witness ==
    /\ pc = "entry"
    /\ ~running
    /\ img_ok
    /\ ImgPath(CurUuid) \notin DOMAIN src_fs

\* C7: a manifest entry's success flags tell what happened to the sources:
\* a half that succeeded has its source deleted and its copy, intact, at the
\* recorded destination; a half that failed has its source in place.  So an
\* entry with the image moved and the video failed leaves the image moved
\* (no rollback) and the video at its source.  A failed half does not end
\* the run: unless the stop signal came, every matched pair gets its entry.
HalfOutcome(h) ==
    IF h.success
    THEN /\ h.source \notin DOMAIN src_fs
         /\ h.dest \in DOMAIN dest_fs
         /\ dest_fs[h.dest] = OrigContent(h.source)
    ELSE /\ h.source \in DOMAIN src_fs
         /\ src_fs[h.source] = OrigContent(h.source)

C8_DeleteAfterBothVerified ==
    \A u \in matched_uuids :
        /\ ImgPath(u) \notin DOMAIN src_fs => CopiedIntact(VidPath(u))
        /\ VidPath(u) \notin DOMAIN src_fs => CopiedIntact(ImgPath(u))

\* C9: first seen wins.  An entry of an index is never replaced nor removed
\* once inserted (in a source's indices while that source is scanned, in the
\* global indices ever), and merging a source's indices adds exactly the
\* identifiers the global indices did not have, with that source's records.
Kept(old, new) == \A u \in DOMAIN old : u \in DOMAIN new /\ new[u] = old[u]

Added(old, idx, new) ==
    /\ DOMAIN new = DOMAIN old \cup DOMAIN idx
    /\ \A u \in DOMAIN idx \ DOMAIN old : new[u] = idx[u]

C9_FirstSeenWins ==
    [][/\ Kept(all_images, all_images')
       /\ Kept(all_videos, all_videos')
       /\ pc # "sources" => Kept(images, images') /\ Kept(videos, videos')
       /\ pc = "merge" /\ pc' # "merge" =>
             /\ Added(all_images, images, all_images')
             /\ Added(all_videos, videos, all_videos')]_vars

\* C9 witness: every source is merged, the global images-index holds source
\* A's record of an identifier, and source B's scan had found another image
\* of that identifier.
C9_Witness ==
    /\ pc = "sources"
    /\ src_i > Len(SOURCE_DIRS)
    /\ \E u \in DOMAIN all_images \cap DOMAIN images :
          /\ all_images[u][1].root = "A"
          /\ images[u][1].root = "B"

\* C10: the three identifier sets of move_pairs.
C10_SetAlgebra ==
    manifest # None =>
       LET I == DOMAIN all_images
           V == DOMAIN all_videos
       IN  /\ matched_uuids = I \cap V
           /\ orphan_img_uuids = I \ matched_uuids
           /\ orphan_vid_uuids = V \ matched_uuids
           /\ matched_uuids \cap orphan_img_uuids = {}
           /\ matched_uuids \cap orphan_vid_uuids = {}
           /\ orphan_img_uuids \cap orphan_vid_uuids = {}
           /\ matched_uuids \cup orphan_img_uuids = I
           /\ matched_uuids \cup orphan_vid_uuids = V

\* C10 witness: the matcher ran on indices that give a pair, an orphan image
\* and an orphan video.
C10_Witness ==
    /\ manifest # None
    /\ matched_uuids # {}
    /\ orphan_img_uuids # {}
    /\ orphan_vid_uuids # {}

\* C11: every entry of an images-index is a record with a source path, a
\* non-empty identifier (its key), an image extension and the video-index
\* marker; every entry of a videos-index has a source path, a non-empty
\* identifier and a video extension.  So a file whose record is anything else
\* is in no index, and is named by no pair entry and no orphan entry.
ImageEntry(u, e) ==
    /\ e[1] # NoPath /\ e[1] = e[2].SourceFile
    /\ u # NoUuid /\ e[2].ContentIdentifier = u
    /\ Lower(e[1].suffix) \in IMAGE_EXTS
    /\ e[2].LivePhotoVideoIndex

VideoEntry(u, e) ==
    /\ e[1] # NoPath /\ e[1] = e[2].SourceFile
    /\ u # NoUuid /\ e[2].ContentIdentifier = u
    /\ Lower(e[1].suffix) \in VIDEO_EXTS

\* The record of file p makes it a Live Photo image, or a companion video.
IsLpImage(p) ==
    /\ meta[p].ContentIdentifier # NoUuid
    /\ Lower(p.suffix) \in IMAGE_EXTS
    /\ meta[p].LivePhotoVideoIndex

IsLpVideo(p) ==
    meta[p].ContentIdentifier # NoUuid /\ Lower(p.suffix) \in VIDEO_EXTS

C11_Classification ==
    /\ \A u \in DOMAIN images : ImageEntry(u, images[u])
    /\ \A u \in DOMAIN all_images : ImageEntry(u, all_images[u])
    /\ \A u \in DOMAIN videos : VideoEntry(u, videos[u])
    /\ \A u \in DOMAIN all_videos : VideoEntry(u, all_videos[u])
    /\ \A p \in MediaFiles :
          /\ (\E u \in DOMAIN images : images[u][1] = p) => IsLpImage(p)
          /\ (\E u \in DOMAIN all_images : all_images[u][1] = p) => IsLpImage(p)
          /\ (\E u \in DOMAIN videos : videos[u][1] = p) => IsLpVideo(p)
          /\ (\E u \in DOMAIN all_videos : all_videos[u][1] = p) => IsLpVideo(p)
    /\ manifest # None =>
          /\ \A k \in 1..Len(manifest.pairs) :
                /\ IsLpImage(manifest.pairs[k].image.source)
                /\ IsLpVideo(manifest.pairs[k].video.source)
          /\ \A k \in 1..Len(manifest.orphan_images) :
                IsLpImage(manifest.orphan_images[k].path)
          /\ \A k \in 1..Len(manifest.orphan_videos) :
                IsLpVideo(manifest.orphan_videos[k].path)

\* C11 witness: image a1 has an identifier and no marker and was read in the
\* same batch as video a2 of that identifier; at the end of the run a1 is in
\* no index and a2 is an orphan video of the manifest.
C11_Witness ==
    /\ pc = "done" /\ ~dry_run
    /\ meta[a1].ContentIdentifier = U1 /\ ~meta[a1].LivePhotoVideoIndex
    /\ U1 \notin DOMAIN all_images
    /\ \E k \in 1..Len(manifest.orphan_videos) :
          manifest.orphan_videos[k] = [uuid |-> U1, path |-> a2]

\* C12: environment errors give an empty contribution and the run goes on.
\* A batch loop step leads only to the next batch step, never out of the
\* scan; a batch that came back empty leaves both indices as they were and
\* the next batch follows, which is read while the run flag is up; a root
\* that does not exist gives two empty indices, which are merged like any
\* other; after every merge the next source follows, so the relocation
\* starts only when every source was visited.
ScanSteps == {"main", "sources", "batch", "classify", "merge"}

C12_ErrorsDegrade ==
    [][/\ pc = "batch" /\ pc' # pc =>
             /\ pc' \in {"classify", "merge"}
             /\ running /\ batch_start < Len(candidates) => pc' = "classify"
       /\ pc = "classify" /\ records = <<>> /\ pc' # pc =>
             /\ images' = images /\ videos' = videos
             /\ pc' = "batch"
             /\ batch_start' = batch_start + EXIFTOOL_BATCH_SIZE
       /\ pc = "sources" /\ pc' # pc =>
             IF src_i <= Len(SOURCE_DIRS)
             THEN /\ pc' \in {"batch", "merge"}
                  /\ ~RootExists(SOURCE_DIRS[src_i]) =>
                        pc' = "merge" /\ images' = <<>> /\ videos' = <<>>
             ELSE pc' \in {"pair", "manifest"}
       /\ pc = "merge" /\ pc' # pc =>
             /\ pc' = "sources"
             /\ src_i' = src_i + 1
             /\ DOMAIN all_images' = DOMAIN all_images \cup DOMAIN images
             /\ DOMAIN all_videos' = DOMAIN all_videos \cup DOMAIN videos]_vars

\* C12 witness: the first batch of source A failed (its Live Photo image a1
\* is in no index), the second batch of A was still read (a3 is indexed),
\* root X does not exist, and a pair of source B was relocated.
C12_Witness ==
    /\ pc = "done" /\ running /\ ~dry_run /\ faults > 0
    /\ IsLpImage(a1)
    /\ \A u \in DOMAIN all_images : all_images[u][1] # a1
    /\ \E u \in DOMAIN all_images : all_images[u][1] = a3
    /\ ~RootExists(SOURCE_DIRS[2])
    /\ b1 \notin DOMAIN src_fs /\ b2 \notin DOMAIN src_fs

\* ------------------------------------------------------------ resumability
\* One run that is neither halted nor hit by a fault, as a function of the
\* files it starts from: every source is scanned and merged (ScanFrom), the
\* matched pairs are relocated in sorted order (MoveFrom).
RECURSIVE ScanFrom(_, _, _, _)
ScanFrom(k, existing, allI, allV) ==
    IF k > Len(SOURCE_DIRS) THEN [images |-> allI, videos |-> allV]
    ELSE LET c == collect_candidate_files(SOURCE_DIRS[k], existing)
             recs == [j \in 1..Len(c) |-> meta[c[j]]]
             idx == Classify([images |-> <<>>, videos |-> <<>>], recs)
         IN  ScanFrom(k + 1, existing, Merge(allI, idx.images), Merge(allV, idx.videos))

RECURSIVE MoveFrom(_, _, _, _)
MoveFrom(ord, k, G, fs) ==
    IF k > Len(ord) THEN fs
    ELSE LET u == ord[k]
             ip == G.images[u][1]
             vp == G.videos[u][1]
             base == rich_base_name(G.images[u][2], u)
             di == safe_dest_path(DOMAIN fs.dest, base, Lower(ip.suffix))
             dv == safe_dest_path(DOMAIN fs.dest, base, ".mov")
         IN  MoveFrom(ord, k + 1, G,
                      [src |-> [p \in DOMAIN fs.src \ {ip, vp} |-> fs.src[p]],
                       dest |-> (di :> fs.src[ip]) @@ (dv :> fs.src[vp]) @@ fs.dest])

OneRun(sfs, dfs) ==
    LET G == ScanFrom(1, DOMAIN sfs, <<>>, <<>>)
    IN  MoveFrom(Sorted(Matched(G.images, G.videos)), 1, G, [src |-> sfs, dest |-> dfs])

\* The files the first run started from: every source file, and in the
\* destination what was there before (files of the program hold source
\* bytes or Garbage, never Stale).
Src0 == [p \in SourceFiles |-> OrigContent(p)]
Dest0 == [d \in {x \in DOMAIN dest_fs : dest_fs[x] = Stale} |-> Stale]

\* The second run has ended, it was not halted, and neither run saw a fault.
ResumedAndDone == pc = "done" /\ resumed /\ running /\ faults = 0

SameAsOneRun ==
    LET r == OneRun(Src0, Dest0)
    IN  src_fs = r.src /\ dest_fs = r.dest /\ dest_dir

\* C13 (as claimed): a halted run followed by a complete run leaves the
\* source and destination files, names and contents, that one uninterrupted
\* run leaves.
C13_Resumable == ResumedAndDone => SameAsOneRun

\* No identifier is carried by two files of the same role.
NoDuplicateIds ==
    \A p, q \in MediaFiles :
        p # q /\ meta[p].ContentIdentifier = meta[q].ContentIdentifier =>
            /\ ~(IsLpImage(p) /\ IsLpImage(q))
            /\ ~(IsLpVideo(p) /\ IsLpVideo(q))

\* C13 (amended): the same, for sources in which no identifier is carried by
\* two files of the same role (two Live Photo images or two videos).
C13_ResumableNoDuplicates == ResumedAndDone /\ NoDuplicateIds => SameAsOneRun

\* C13 witness: no identifier is carried twice, the halted run had relocated
\* one pair (two files of the destination are in no entry of the second
\* run's manifest) and the second run has relocated another.
C13_Witness ==
    /\ ResumedAndDone /\ NoDuplicateIds
    /\ Len(manifest.pairs) = 1
    /\ manifest.pairs[1].image.success /\ manifest.pairs[1].video.success
    /\ Cardinality({d \in DOMAIN dest_fs : dest_fs[d] \notin {Stale, Garbage}}) = 4

PairEntries == IF manifest = None THEN <<>> ELSE manifest.pairs

\* The pairs whose relocation was begun, in the order it was begun: those of
\* the entries, then the pair in the loop body.
Attempted ==
    [k \in 1..Len(PairEntries) |-> PairEntries[k].uuid]
    \o (IF pc \in MoveSteps THEN <<CurUuid>> ELSE <<>>)

\* No orphan entry is in the manifest.
NoOrphanEntries ==
    manifest # None => manifest.orphan_images = <<>> /\ manifest.orphan_videos = <<>>

\* What holds in every state of a run that is not dry: files are relocated
\* only when every source was scanned and merged; the pairs begun are in
\* strictly ascending order of identifier; within a pair the video is in
\* safe_move only after the image's result is known; there is one entry per
\* pair that was begun and finished; no orphan entry exists while the pair
\* loop runs; and once the manifest is written nothing is left to do.
RunOrder ==
    /\ pc \in MoveSteps => src_i > Len(SOURCE_DIRS)
    /\ pc \in ScanSteps => src_fs = Src0 /\ PairEntries = <<>>
    /\ \A k, l \in 1..Len(Attempted) : k < l => StrLess(Attempted[k], Attempted[l])
    /\ \A k \in 1..Len(Attempted) : Attempted[k] \in matched_uuids
    /\ pc \in MoveSteps /\ sm_role = "img" =>
          VidPath(CurUuid) \in DOMAIN src_fs /\ dest_vid \notin DOMAIN dest_fs
    /\ Len(PairEntries) = i
    /\ pc \in PairSteps \cup {"pair"} => NoOrphanEntries
    /\ manifest_file # <<>> => pc \in {"exit", "done"} /\ manifest_file = <<manifest>>

\* C15: the order of a run that is not dry.  Every state satisfies RunOrder,
\* and the steps keep the order: the files change only inside safe_move; the
\* image of a pair is handed to safe_move at the loop head and the video
\* when the image's safe_move returns; a pair entry is appended only by the
\* entry step, after the video's safe_move returned, it is the entry of the
\* pair just relocated and its flags are the two results; orphan entries
\* are appended only when the pair loop has ended; the manifest is written
\* after that, and nothing changes once it is written.
C15_RunLoopOrder ==
    [][~dry_run =>
         /\ RunOrder /\ RunOrder'
         /\ (src_fs' # src_fs \/ dest_fs' # dest_fs) => pc \in MoveSteps
         /\ sm_role' = "img" /\ sm_role # "img" => pc = "pair"
         /\ sm_role' = "vid" /\ sm_role # "vid" =>
               /\ sm_role = "img" /\ pc \in MoveSteps /\ pc' = "copy"
               /\ src' = VidPath(CurUuid) /\ img_ok' \in BOOLEAN
         /\ PairEntries' # PairEntries =>
               /\ pc = "entry"
               /\ PairEntries' = Append(PairEntries, Entry(order[i + 1]))
               /\ PairEntries'[i + 1].uuid = order[i + 1]
               /\ PairEntries'[i + 1].image.success = img_ok
               /\ PairEntries'[i + 1].video.success = vid_ok
         /\ pc' = "entry" /\ pc # "entry" => sm_role = "vid" /\ pc \in MoveSteps
         /\ ~NoOrphanEntries' /\ NoOrphanEntries => pc = "orphans"
         /\ manifest_file' # manifest_file => pc = "manifest" /\ manifest_file' = <<manifest>>
         /\ pc \in {"exit", "done"} => UNCHANGED <<fsVars, manifest>>]_vars

\* C15 witness: two pairs were relocated in ascending order, the second with
\* a failed video, and the manifest is written.
C15_Witness ==
    /\ pc = "done" /\ ~dry_run /\ manifest_file = <<manifest>>
    /\ Len(manifest.pairs) = 2
    /\ manifest.pairs[1].image.success /\ manifest.pairs[1].video.success
    /\ manifest.pairs[2].image.success /\ ~manifest.pairs[2].video.success
    /\ StrLess(manifest.pairs[1].uuid, manifest.pairs[2].uuid)

\* The path `d` is the first free name for `base` and `ext` in the listing
\* `dir`: it does not exist, every candidate before it exists, and it is
\* the plain name when that is free, the name with _01 when only the plain
\* name is taken.
FirstFree(d, dir, base, ext) ==
    /\ d.base = base /\ d.ext = ext /\ d.counter \in Nat
    /\ d \notin dir
    /\ \A m \in 0..(d.counter - 1) :
          /\ DestPath(base, m, ext) \in dir
          /\ CounterSuffix(m) # CounterSuffix(d.counter)
    /\ DestPath(base, 0, ext) \notin dir <=> CounterSuffix(d.counter) = <<>>
    /\ DestPath(base, 0, ext) \in dir /\ DestPath(base, 1, ext) \notin dir
          <=> CounterSuffix(d.counter) = <<"_", "0", "1">>

\* C16: the names the pair loop takes for a pair are the first free names of
\* the destination directory as it is when they are taken, for the image's
\* extension and for ".mov".
C16_FirstFreeName ==
    [][pc = "pair" /\ pc' = "copy" =>
         LET uuid == order[i + 1]
         IN  /\ FirstFree(dest_img', DOMAIN dest_fs, BaseOf(uuid), Lower(ImgPath(uuid).suffix))
             /\ FirstFree(dest_vid', DOMAIN dest_fs, BaseOf(uuid), ".mov")]_vars

\* C16 witness: names were taken with the plain image name and its _01 name
\* both in the directory and the plain video name too: the image gets _02
\* and the video _01.
C16_Witness ==
    /\ pc = "copy" /\ sm_role = "img"
    /\ dest_img.counter = 2 /\ dest_vid.counter = 1
    /\ DestPath(dest_img.base, 0, dest_img.ext) \in DOMAIN dest_fs
    /\ DestPath(dest_img.base, 1, dest_img.ext) \in DOMAIN dest_fs
    /\ DestPath(dest_vid.base, 0, dest_vid.ext) \in DOMAIN dest_fs
    /\ dest_img \notin DOMAIN dest_fs

\* safe_move returns False in this step.
ReturnsFalse ==
    /\ pc \in MoveSteps
    /\ \/ sm_role = "img" /\ sm_role' = "vid" /\ ~img_ok'
       \/ sm_role = "vid" /\ pc' = "entry" /\ ~vid_ok'

\* C17: when safe_move returns False no file is at the destination path it
\* was given, and when the run has ended the destination directory holds no
\* damaged file.
C17_FailureLeavesNothing ==
    [][/\ ReturnsFalse => dst \notin DOMAIN dest_fs'
       /\ pc' = "done" => \A d \in DOMAIN dest_fs' : dest_fs'[d] # Garbage]_vars

\* No file was copied and none deleted: the sources are as they were and the
\* destination holds nothing but what was there before the run.
NothingMoved ==
    /\ src_fs = Src0
    /\ \A d \in DOMAIN dest_fs : dest_fs[d] = Stale

\* C18: a run flag that is down stays down; with the flag down no batch is
\* handed to exiftool (the classify step is entered from no other step, in
\* this source or a later one) and no pair enters safe_move; and a run whose
\* flag went down before its first pair was begun has moved nothing, up to
\* and including its end.
C18_StopIsFinal ==
    [][~running =>
         /\ ~running'
         /\ pc # "classify" => pc' # "classify" /\ records' = records
         /\ pc \notin MoveSteps => pc' \notin MoveSteps /\ UNCHANGED <<src_fs, dest_fs, smVars>>
         /\ pc \in ScanSteps => NothingMoved /\ i = 0
         /\ i = 0 /\ pc \notin PairSteps => NothingMoved /\ NothingMoved' /\ i' = 0]_vars

\* C18 witness: the flag went down while the first source was scanned, after
\* a batch that holds a pair; the second source's files were never read, the
\* run has ended and nothing was moved.
C18_Witness ==
    /\ pc = "done" /\ ~running /\ ~dry_run
    /\ matched_uuids # {}
    /\ meta[b1].ContentIdentifier \notin DOMAIN all_images
    /\ manifest.pairs = <<>>
    /\ NothingMoved

\* The identifiers of a list of manifest entries, and the number of entries
\* of the list that carry identifier u.
Uuids(entries) == {entries[k].uuid : k \in 1..Len(entries)}
Count(entries, u) == Cardinality({k \in 1..Len(entries) : entries[k].uuid = u})

\* C19: in the manifest of a run that is not dry no identifier is twice in
\* one list and none is in the pairs and in an orphan list; and when the run
\* flag is still up once move_pairs has returned, every identifier of the
\* two indexes is once in its list and in no other: in the pairs when both
\* indexes have it, in the orphan images when only the images have it, in
\* the orphan videos when only the videos have it.
C19_ManifestAccounting ==
    manifest # None /\ ~dry_run =>
       LET P == manifest.pairs
           OI == manifest.orphan_images
           OV == manifest.orphan_videos
           I == DOMAIN all_images
           V == DOMAIN all_videos
       IN  /\ \A u \in Uuids(P) : Count(P, u) = 1
           /\ \A u \in Uuids(OI) : Count(OI, u) = 1
           /\ \A u \in Uuids(OV) : Count(OV, u) = 1
           /\ Uuids(P) \cap (Uuids(OI) \cup Uuids(OV)) = {}
           /\ Uuids(P) \cup Uuids(OI) \cup Uuids(OV) \subseteq I \cup V
           /\ running /\ pc \in {"manifest", "exit", "done"} =>
                 /\ Uuids(P) = I \cap V
                 /\ Uuids(OI) = I \ V
                 /\ Uuids(OV) = V \ I
                 /\ manifest_file # <<>> => manifest_file = <<manifest>>

\* C19 witness: a run that was not stopped has ended with a pair, an orphan
\* image and an orphan video in the manifest it wrote.
C19_Witness ==
    /\ pc = "done" /\ running /\ ~dry_run /\ manifest_file = <<manifest>>
    /\ manifest.pairs # <<>>
    /\ manifest.orphan_images # <<>>
    /\ manifest.orphan_videos # <<>>

====
